---- MODULE Spec2Model ----
(***************************************************************************)
(* Task lifecycle and event emission (src/src/schema/schema.py, class Task *)
(* and TaskMessageData) and its caller calculator_func                     *)
(* (src/src/agents/tools.py).                                              *)
(*                                                                         *)
(* A Python dict is modelled as the set of its <<key, value>> pairs, None  *)
(* as the string "None".  The EventSink (adispatch_custom_event) is an     *)
(* external collaborator: every dispatch either accepts the event or       *)
(* raises, chosen by the environment (parameter ok of the operations).     *)
(***************************************************************************)
EXTENDS Integers, Sequences, FiniteSets, TLC

VARIABLES name, id, state, result,      \* fields of the constructed Tasks
          events, emitter,              \* events accepted by the EventSink, and the Task that dispatched each
          calls, dispatched,            \* per Task: calls made per operation, dispatches handed to the sink
          last,                         \* the most recent Task operation and how it ended
          pc, expression, output, outcome,  \* calculator_func invocations
          script                        \* the scripted caller of the sequence scenario

taskVars == <<name, id, state, result, events, emitter, calls, dispatched, last>>
calcVars == <<pc, expression, output, outcome>>
vars == <<name, id, state, result, events, emitter, calls, dispatched, last,
          pc, expression, output, outcome, script>>

----------------------------------------------------------------------------
(* Bounds and input sets *)

MaxCalls == 3

Tasks == {1, 2}
Uuids == {"u1", "u2"}
TaskNames == {"Simple task 1...", "Simple task 2..."}
None == "None"
EmptyDict == {}
Data == {EmptyDict, {<<"k", "v1">>}}
ScriptData == {{<<"k", "d1">>}, {<<"k", "d2">>}, {<<"k", "d3">>}}
Results == {"success", "error"}
Invocations == {1, 2}
Expressions == {"1+1", "pi*2", "1+", "foo(1)"}

----------------------------------------------------------------------------
(* TaskMessageData and the message envelope *)

\* mutation: run_id left at its field default ""
TaskMessageData_default_run_id(nm, rid, st, res, d) ==
    [name |-> nm, run_id |-> "", state |-> st, result |-> res, data |-> d]

TaskMessageData(nm, rid, st, res, d) ==
    [name |-> nm, run_id |-> rid, state |-> st, result |-> res, data |-> d]

LangchainChatMessage(content, role) ==
    [content |-> content, role |-> role]

\* uuid4(): an identifier no constructed Task carries
uuid4 == Uuids \ {id[t] : t \in DOMAIN id}

NoCalls == [start |-> 0, write_data |-> 0, finish |-> 0]
CallCount(t) == calls[t].start + calls[t].write_data + calls[t].finish

RECURSIVE SumOver(_, _)
SumOver(f, S) ==
    IF S = {} THEN 0
    ELSE LET x == CHOOSE y \in S : TRUE IN f[x] + SumOver(f, S \ {x})

TotalCalls == SumOver([t \in DOMAIN calls |-> CallCount(t)], DOMAIN calls)

\* await adispatch_custom_event(name=..., data=..., config=config)
adispatch_custom_event(t, nm, msg, ok) ==
    /\ dispatched' = [dispatched EXCEPT ![t] = @ + 1]
    /\ IF ok
       THEN /\ events' = Append(events, [name |-> nm, data |-> msg])
            /\ emitter' = Append(emitter, t)
       ELSE UNCHANGED <<events, emitter>>

----------------------------------------------------------------------------
(* class Task *)

Task__init__(t, task_name, uuid) ==
    /\ t \notin DOMAIN state
    /\ uuid \in uuid4
    /\ name' = name @@ (t :> task_name)
    /\ id' = id @@ (t :> uuid)
    /\ state' = state @@ (t :> "new")
    /\ result' = result @@ (t :> None)
    /\ calls' = calls @@ (t :> NoCalls)
    /\ dispatched' = dispatched @@ (t :> 0)
    /\ UNCHANGED <<events, emitter, last>>

\* mutation: emit first, mutate only once the sink has accepted
start_emit_then_mutate(t, data, ok) ==
    /\ t \in DOMAIN state
    /\ state' = [state EXCEPT ![t] = IF ok THEN "running" ELSE @]
    /\ LET task_message ==
               LangchainChatMessage(
                   <<TaskMessageData(name[t], id[t], "running", None, data)>>,
                   "custom")
       IN adispatch_custom_event(t, name[t], task_message, ok)
    /\ calls' = [calls EXCEPT ![t].start = @ + 1]
    /\ last' = [task |-> t, op |-> "start",
                outcome |-> IF ok THEN "return" ELSE "SinkDeliveryError"]
    /\ UNCHANGED <<name, id, result>>

\* mutation: the snapshot is built with result=self.result
start_with_result(t, data, ok) ==
    /\ t \in DOMAIN state
    /\ state' = [state EXCEPT ![t] = "running"]
    /\ LET task_message ==
               LangchainChatMessage(
                   <<TaskMessageData(name[t], id[t], state'[t], result[t], data)>>,
                   "custom")
       IN adispatch_custom_event(t, name[t], task_message, ok)
    /\ calls' = [calls EXCEPT ![t].start = @ + 1]
    /\ last' = [task |-> t, op |-> "start",
                outcome |-> IF ok THEN "return" ELSE "SinkDeliveryError"]
    /\ UNCHANGED <<name, id, result>>

start(t, data, ok) ==
    /\ t \in DOMAIN state
    /\ state' = [state EXCEPT ![t] = "running"]
    /\ LET task_message ==
               LangchainChatMessage(
                   <<TaskMessageData(name[t], id[t], state'[t], None, data)>>,
                   "custom")
       IN adispatch_custom_event(t, name[t], task_message, ok)
    /\ calls' = [calls EXCEPT ![t].start = @ + 1]
    /\ last' = [task |-> t, op |-> "start",
                outcome |-> IF ok THEN "return" ELSE "SinkDeliveryError"]
    /\ UNCHANGED <<name, id, result>>

\* mutation: the state check is missing
write_data_unguarded(t, data, ok) ==
    /\ t \in DOMAIN state
    /\ calls' = [calls EXCEPT ![t].write_data = @ + 1]
    /\ LET task_message ==
               LangchainChatMessage(
                   <<TaskMessageData(name[t], id[t], state[t], None, data)>>,
                   "custom")
       IN adispatch_custom_event(t, name[t], task_message, ok)
    /\ last' = [task |-> t, op |-> "write_data",
                outcome |-> IF ok THEN "return" ELSE "SinkDeliveryError"]
    /\ UNCHANGED <<name, id, state, result>>

\* mutation: the snapshot is dispatched before the state check raises
write_data_emit_then_check(t, data, ok) ==
    /\ t \in DOMAIN state
    /\ calls' = [calls EXCEPT ![t].write_data = @ + 1]
    /\ LET task_message ==
               LangchainChatMessage(
                   <<TaskMessageData(name[t], id[t], state[t], None, data)>>,
                   "custom")
       IN adispatch_custom_event(t, name[t], task_message, ok)
    /\ last' = [task |-> t, op |-> "write_data",
                outcome |-> IF ~ok THEN "SinkDeliveryError"
                            ELSE IF state[t] # "running" THEN "ValueError"
                            ELSE "return"]
    /\ UNCHANGED <<name, id, state, result>>

write_data(t, data, ok) ==
    /\ t \in DOMAIN state
    /\ calls' = [calls EXCEPT ![t].write_data = @ + 1]
    /\ IF state[t] # "running"
       THEN /\ last' = [task |-> t, op |-> "write_data", outcome |-> "ValueError"]
            /\ UNCHANGED <<events, emitter, dispatched>>
       ELSE /\ LET task_message ==
                       LangchainChatMessage(
                           <<TaskMessageData(name[t], id[t], state[t], None, data)>>,
                           "custom")
               IN adispatch_custom_event(t, name[t], task_message, ok)
            /\ last' = [task |-> t, op |-> "write_data",
                        outcome |-> IF ok THEN "return" ELSE "SinkDeliveryError"]
    /\ UNCHANGED <<name, id, state, result>>

\* mutation: the data argument is not passed on to the snapshot
finish_default_data(t, res, data, ok) ==
    /\ t \in DOMAIN state
    /\ state' = [state EXCEPT ![t] = "complete"]
    /\ result' = [result EXCEPT ![t] = res]
    /\ LET task_message ==
               LangchainChatMessage(
                   <<TaskMessageData(name[t], id[t], state'[t], result'[t], EmptyDict)>>,
                   "custom")
       IN adispatch_custom_event(t, name[t], task_message, ok)
    /\ calls' = [calls EXCEPT ![t].finish = @ + 1]
    /\ last' = [task |-> t, op |-> "finish",
                outcome |-> IF ok THEN "return" ELSE "SinkDeliveryError"]
    /\ UNCHANGED <<name, id>>

finish(t, res, data, ok) ==
    /\ t \in DOMAIN state
    /\ state' = [state EXCEPT ![t] = "complete"]
    /\ result' = [result EXCEPT ![t] = res]
    /\ LET task_message ==
               LangchainChatMessage(
                   <<TaskMessageData(name[t], id[t], state'[t], result'[t], data)>>,
                   "custom")
       IN adispatch_custom_event(t, name[t], task_message, ok)
    /\ calls' = [calls EXCEPT ![t].finish = @ + 1]
    /\ last' = [task |-> t, op |-> "finish",
                outcome |-> IF ok THEN "return" ELSE "SinkDeliveryError"]
    /\ UNCHANGED <<name, id>>

----------------------------------------------------------------------------
(* Any caller: every Task operation in any order, on any constructed Task *)

NoCall == [task |-> 0, op |-> "none", outcome |-> "none"]
Empty == [t \in {} |-> None]

Init ==
    /\ name = Empty /\ id = Empty /\ state = Empty /\ result = Empty
    /\ events = <<>> /\ emitter = <<>>
    /\ calls = Empty /\ dispatched = Empty
    /\ last = NoCall
    /\ pc = [i \in Invocations |-> "idle"]
    /\ expression = [i \in Invocations |-> None]
    /\ output = [i \in Invocations |-> None]
    /\ outcome = [i \in Invocations |-> None]
    /\ script = None

Create(t, task_name, uuid) ==
    /\ Task__init__(t, task_name, uuid)
    /\ UNCHANGED <<calcVars, script>>

Start(t, data, ok) ==
    /\ TotalCalls < MaxCalls
    /\ start(t, data, ok)
    /\ UNCHANGED <<calcVars, script>>

WriteData(t, data, ok) ==
    /\ TotalCalls < MaxCalls
    /\ write_data(t, data, ok)
    /\ UNCHANGED <<calcVars, script>>

Finish(t, res, data, ok) ==
    /\ TotalCalls < MaxCalls
    /\ finish(t, res, data, ok)
    /\ UNCHANGED <<calcVars, script>>

Next ==
    \/ \E t \in Tasks, nm \in TaskNames, u \in Uuids : Create(t, nm, u)
    \/ \E t \in Tasks, d \in Data, ok \in BOOLEAN : Start(t, d, ok)
    \/ \E t \in Tasks, d \in Data, ok \in BOOLEAN : WriteData(t, d, ok)
    \/ \E t \in Tasks, r \in Results, d \in Data, ok \in BOOLEAN : Finish(t, r, d, ok)

Spec == Init /\ [][Next]_vars

----------------------------------------------------------------------------
(* calculator_func: invocation i owns the Task in slot i (its task1) *)

EvalError == "EvalError"

\* str(numexpr.evaluate(expression.strip(), ...)): the printed value, or an
\* exception for an expression numexpr rejects
numexpr_evaluate(expr) ==
    CASE expr = "1+1" -> "2"
      [] expr = "pi*2" -> "6.283185307179586"
      [] OTHER -> EvalError

CalcInit == Init

\* task1 = Task("Simple task 1...")
CalcInvoke(i, expr, uuid) ==
    /\ pc[i] = "idle"
    /\ Task__init__(i, "Simple task 1...", uuid)
    /\ expression' = [expression EXCEPT ![i] = expr]
    /\ pc' = [pc EXCEPT ![i] = "start"]
    /\ UNCHANGED <<output, outcome, script>>

\* await task1.start(config=config), outside the try block
CalcStart(i, ok) ==
    /\ pc[i] = "start"
    /\ start(i, EmptyDict, ok)
    /\ IF ok
       THEN /\ pc' = [pc EXCEPT ![i] = "evaluate"]
            /\ UNCHANGED outcome
       ELSE /\ pc' = [pc EXCEPT ![i] = "done"]
            /\ outcome' = [outcome EXCEPT ![i] = "SinkDeliveryError"]
    /\ UNCHANGED <<expression, output, script>>

CalcEvaluate(i) ==
    /\ pc[i] = "evaluate"
    /\ IF numexpr_evaluate(expression[i]) # EvalError
       THEN /\ output' = [output EXCEPT ![i] = numexpr_evaluate(expression[i])]
            /\ pc' = [pc EXCEPT ![i] = "sleep"]
       ELSE /\ pc' = [pc EXCEPT ![i] = "except"]
            /\ UNCHANGED output
    /\ UNCHANGED <<taskVars, expression, outcome, script>>

\* await asyncio.sleep(2)
CalcSleep(i) ==
    /\ pc[i] = "sleep"
    /\ pc' = [pc EXCEPT ![i] = "finish"]
    /\ UNCHANGED <<taskVars, expression, output, outcome, script>>

\* await task1.finish(result="success", ...) inside the try block; an
\* exception it raises is caught by `except Exception`
CalcFinish(i, ok) ==
    /\ pc[i] = "finish"
    /\ finish(i, "success", {<<"output", output[i]>>}, ok)
    /\ IF ok
       THEN /\ pc' = [pc EXCEPT ![i] = "done"]
            /\ outcome' = [outcome EXCEPT ![i] = "return"]
       ELSE /\ pc' = [pc EXCEPT ![i] = "except"]
            /\ UNCHANGED outcome
    /\ UNCHANGED <<expression, output, script>>

\* except Exception: await task1.finish(result="error", ...); raise ValueError
CalcExcept(i, ok) ==
    /\ pc[i] = "except"
    /\ finish(i, "error", {<<"output", "error">>}, ok)
    /\ pc' = [pc EXCEPT ![i] = "done"]
    /\ outcome' = [outcome EXCEPT ![i] = IF ok THEN "ValueError" ELSE "SinkDeliveryError"]
    /\ UNCHANGED <<expression, output, script>>

CalcNext ==
    \/ \E i \in Invocations, e \in Expressions, u \in Uuids : CalcInvoke(i, e, u)
    \/ \E i \in Invocations, ok \in BOOLEAN : CalcStart(i, ok)
    \/ \E i \in Invocations : CalcEvaluate(i)
    \/ \E i \in Invocations : CalcSleep(i)
    \/ \E i \in Invocations, ok \in BOOLEAN : CalcFinish(i, ok)
    \/ \E i \in Invocations, ok \in BOOLEAN : CalcExcept(i, ok)

CalcSpec == CalcInit /\ [][CalcNext]_vars

----------------------------------------------------------------------------
(* The sequence scenario: a caller takes a fresh Task through              *)
(* start, write_data(d1), write_data(d2), finish("success", d3) with a     *)
(* sink that accepts every event.                                          *)

ScriptTask == 1

ScriptInit ==
    /\ name = Empty /\ id = Empty /\ state = Empty /\ result = Empty
    /\ events = <<>> /\ emitter = <<>>
    /\ calls = Empty /\ dispatched = Empty
    /\ last = NoCall
    /\ pc = [i \in Invocations |-> "idle"]
    /\ expression = [i \in Invocations |-> None]
    /\ output = [i \in Invocations |-> None]
    /\ outcome = [i \in Invocations |-> None]
    /\ script \in [d1 : ScriptData, d2 : ScriptData, d3 : ScriptData, step : {0}]

ScriptCreate(task_name, uuid) ==
    /\ script.step = 0
    /\ Task__init__(ScriptTask, task_name, uuid)
    /\ script' = [script EXCEPT !.step = 1]
    /\ UNCHANGED calcVars

ScriptStart(data) ==
    /\ script.step = 1
    /\ start(ScriptTask, data, TRUE)
    /\ script' = [script EXCEPT !.step = 2]
    /\ UNCHANGED calcVars

ScriptWrite1 ==
    /\ script.step = 2
    /\ write_data(ScriptTask, script.d1, TRUE)
    /\ script' = [script EXCEPT !.step = 3]
    /\ UNCHANGED calcVars

ScriptWrite2 ==
    /\ script.step = 3
    /\ write_data(ScriptTask, script.d2, TRUE)
    /\ script' = [script EXCEPT !.step = 4]
    /\ UNCHANGED calcVars

ScriptFinish ==
    /\ script.step = 4
    /\ finish(ScriptTask, "success", script.d3, TRUE)
    /\ script' = [script EXCEPT !.step = 5]
    /\ UNCHANGED calcVars

ScriptNext ==
    \/ \E nm \in TaskNames, u \in Uuids : ScriptCreate(nm, u)
    \/ \E d \in Data : ScriptStart(d)
    \/ ScriptWrite1
    \/ ScriptWrite2
    \/ ScriptFinish

ScriptSpec == ScriptInit /\ [][ScriptNext]_vars

----------------------------------------------------------------------------
(* Reading the event stream *)

\* the TaskMessageData record carried by the k-th accepted event
Snapshot(k) == events[k].data.content[1]

\* the snapshots accepted under one run_id, in order of acceptance
SnapshotsOf(rid) ==
    LET F[k \in 0..Len(events)] ==
            IF k = 0 THEN <<>>
            ELSE IF Snapshot(k).run_id = rid THEN Append(F[k - 1], Snapshot(k))
                 ELSE F[k - 1]
    IN F[Len(events)]

\* the states of a sequence of snapshots
StatesOf(snaps) == [k \in 1..Len(snaps) |-> snaps[k].state]

----------------------------------------------------------------------------
(* Claims *)

\* C1: in every reachable state a Task's result is non-null if and only if
\* its state is complete.
C1_ResultIffComplete ==
    \A t \in DOMAIN state : (result[t] # None) <=> (state[t] = "complete")

\* C2: complete is terminal: no call of start, write_data or finish takes a
\* Task out of state complete.
C2_CompleteTerminal ==
    [][\A t \in DOMAIN state : state[t] = "complete" => state'[t] = "complete"]_vars

\* C3: a write_data call on a Task that is not running raises the
\* invalid-transition error (ValueError), dispatches nothing, and leaves the
\* Task's state and result unchanged.
C3_WriteDataRejected ==
    [][\A t \in DOMAIN state :
          (state[t] # "running" /\ calls'[t].write_data = calls[t].write_data + 1)
          => /\ last' = [task |-> t, op |-> "write_data", outcome |-> "ValueError"]
             /\ state'[t] = state[t]
             /\ result'[t] = result[t]
             /\ events' = events
             /\ dispatched'[t] = dispatched[t]]_vars

\* C3 witness: write_data has just been rejected on a completed Task.
C3_Witness ==
    /\ last.op = "write_data"
    /\ last.outcome = "ValueError"
    /\ state[last.task] = "complete"
    /\ result[last.task] \in Results

\* C4: after start, write_data(d1), write_data(d2), finish(success, d3) on a
\* fresh Task with an accepting sink, the sink holds exactly four snapshots of
\* that Task, in call order, with states running, running, running, complete;
\* the first three carry no result, the last carries result success and
\* data d3.
C4_Sequence ==
    script.step = 5 =>
        LET snaps == SnapshotsOf(id[ScriptTask]) IN
        /\ Len(snaps) = 4
        /\ StatesOf(snaps) = <<"running", "running", "running", "complete">>
        /\ \A k \in 1..3 : snaps[k].result = None
        /\ snaps[2].data = script.d1
        /\ snaps[3].data = script.d2
        /\ snaps[4].result = "success"
        /\ snaps[4].data = script.d3

\* C4 witness: the script has run to its end with three different payloads.
C4_Witness ==
    /\ script.step = 5
    /\ Cardinality({script.d1, script.d2, script.d3}) = 3
    /\ Len(events) = 4

\* C5 (as claimed): every call of start, write_data or finish hands exactly
\* one snapshot to the EventSink.
C5_OneEmissionPerCall ==
    \A t \in DOMAIN calls : dispatched[t] = CallCount(t)

\* C5 (amended): every call of start or finish, and every call of write_data
\* on a running Task, hands exactly one snapshot to the EventSink (which
\* accepts it or fails); a call of write_data on a Task that is not running
\* hands over none.
C5_OneEmissionUnlessRejected ==
    [][\A t \in DOMAIN calls :
          calls'[t] # calls[t]
          => IF calls'[t].write_data # calls[t].write_data /\ state[t] # "running"
             THEN /\ dispatched'[t] = dispatched[t]
                  /\ events' = events
             ELSE /\ dispatched'[t] = dispatched[t] + 1
                  /\ Len(events') <= Len(events) + 1]_vars

\* C5 witness: a Task with dispatched snapshots and a rejected write_data.
C5_Witness ==
    \E t \in DOMAIN calls :
        /\ dispatched[t] >= 1
        /\ dispatched[t] < CallCount(t)
        /\ calls[t].write_data >= 1

\* C6: under one run_id no running snapshot is emitted after a complete
\* snapshot.
C6_RunningThenComplete ==
    \A j, k \in 1..Len(events) :
        (j < k /\ Snapshot(j).run_id = Snapshot(k).run_id
               /\ Snapshot(j).state = "complete")
        => Snapshot(k).state # "running"

\* C7: no operation changes a Task's id or name, and every accepted snapshot
\* carries the id and name of the Task whose operation dispatched it, an id
\* no other Task has.
C7_IdFixedAndAttribution ==
    [][/\ \A t \in DOMAIN id : id'[t] = id[t] /\ name'[t] = name[t]
       /\ Len(events') > Len(events) => emitter'[Len(events')] = last'.task
       /\ \A k \in 1..Len(events') :
             LET snap == events'[k].data.content[1]
                 t == emitter'[k]
             IN /\ snap.run_id = id'[t]
                /\ snap.name = name'[t]
                /\ events'[k].name = name'[t]
                /\ \A u \in (DOMAIN id') \ {t} : id'[u] # snap.run_id]_vars

\* C7 witness: two Tasks with interleaved snapshots in the sink.
C7_Witness ==
    \E j, k, l \in 1..Len(events) :
        /\ j < k /\ k < l
        /\ emitter[j] = emitter[l]
        /\ emitter[j] # emitter[k]

\* C8: when the sink fails to accept the snapshot of a start or finish call,
\* the call ends with the sink's failure and the Task is already mutated:
\* running after start, complete with a result after finish.
C8_MutateThenEmit ==
    [][\A t \in DOMAIN state :
          (/\ dispatched'[t] = dispatched[t] + 1
           /\ events' = events
           /\ last'.op \in {"start", "finish"})
          => /\ last'.task = t
             /\ last'.outcome = "SinkDeliveryError"
             /\ last'.op = "start" => state'[t] = "running"
             /\ last'.op = "finish" => state'[t] = "complete" /\ result'[t] \in Results]_vars

\* C8 witness: start failed on a new Task, which is running with no snapshot
\* in the sink.
C8_Witness ==
    /\ last.op = "start"
    /\ last.outcome = "SinkDeliveryError"
    /\ state[last.task] = "running"
    /\ calls[last.task].start = 1
    /\ SnapshotsOf(id[last.task]) = <<>>

\* C9: a snapshot carries a result only if its state is complete.
C9_ResultOnlyOnTerminal ==
    \A k \in 1..Len(events) :
        Snapshot(k).result # None => Snapshot(k).state = "complete"

\* C9 witness: a Task whose result is set has emitted a running snapshot
\* after its complete snapshot.
C9_Witness ==
    \E j, k \in 1..Len(events) :
        /\ j < k
        /\ emitter[j] = emitter[k]
        /\ Snapshot(j).state = "complete"
        /\ Snapshot(k).state = "running"
        /\ result[emitter[k]] \in Results

\* start has returned in invocation i: its running snapshot was accepted
StartReturned(i) ==
    \E k \in 1..Len(events) : emitter[k] = i /\ Snapshot(k).state = "running"

\* C10: in every finished execution of calculator_func in which start has
\* returned, finish was invoked exactly once, and when the sink accepted
\* every snapshot the Task emitted one running snapshot followed by one
\* complete snapshot.
C10_FinishExactlyOnce ==
    \A i \in Invocations :
        (pc[i] = "done" /\ StartReturned(i))
        => /\ calls[i].finish = 1
           /\ Len(SnapshotsOf(id[i])) = dispatched[i]
              => StatesOf(SnapshotsOf(id[i])) = <<"running", "complete">>

====
